---- MODULE Spec2Model ----
(***************************************************************************)
(* RabbitMQ policy objects of hooks/lib/policies.py: BasePolicy, TTLPolicy *)
(* and HAPolicy, their validated properties, their computed definitions,   *)
(* set()/clear() against rabbitmqctl, and identity (__eq__/__hash__).      *)
(***************************************************************************)
EXTENDS Integers, Sequences, FiniteSets, TLC

VARIABLES
    self,     \* the policy object under test, or NoPolicy before construction
    other,    \* a second python object, compared with self
    pset,     \* a python set of policies, in insertion order
    calls,    \* collaborator calls made by the last operation, in order
    ret,      \* how the last operation ended: a returned value or a raised error
    last,     \* the last operation and the collaborators' answers it was given
    applied,  \* the set() calls made in a row on the unmodified policy
    broker    \* the broker's policies, by <<vhost, name>>

vars == <<self, other, pset, calls, ret, last, applied, broker>>

----------------------------------------------------------------------------
(* Bounds of the model.                                                    *)

\* set() calls in a row on an unmodified policy
MaxApply == 2

----------------------------------------------------------------------------
(* Python values. A str held by a policy field is a TLA+ string; a value   *)
(* whose type is not fixed by the code carries its type as its field name. *)

PyNone == [none |-> TRUE]
PyStr(s) == [str |-> s]
PyInt(n) == [int |-> n]
PyBool(b) == [bool |-> b]
PyList(l) == [list |-> l]
PyDict(d) == [dict |-> d]

IsNone(v) == DOMAIN v = {"none"}
IsStr(v) == DOMAIN v = {"str"}
IsInt(v) == DOMAIN v = {"int"}
IsBool(v) == DOMAIN v = {"bool"}
IsList(v) == DOMAIN v = {"list"}
IsDict(v) == DOMAIN v = {"dict"}

Return(v) == [kind |-> "return", value |-> v]
Raise(e) == [kind |-> "raise", exc |-> e]

NoPolicy == [cls |-> "none"]
IsPolicy(o) == "cls" \in DOMAIN o /\ o.cls \in {"BasePolicy", "TTLPolicy", "HAPolicy"}

Digits == <<"0", "1", "2", "3", "4", "5", "6", "7", "8", "9">>
IsDigit(c) == \E d \in 1..10 : Digits[d] = c
DigitVal(c) == (CHOOSE d \in 1..10 : Digits[d] = c) - 1

\* the value of the decimal digits s[i..j]
RECURSIVE DecVal(_, _, _)
DecVal(s, i, j) ==
    IF j < i THEN 0
    ELSE 10 * DecVal(s, i, j - 1) + DigitVal(SubSeq(s, j, j))

AllDigits(s, i, j) == \A k \in i..j : IsDigit(SubSeq(s, k, k))

\* str(v)
str(v) ==
    CASE IsStr(v) -> v.str
      [] IsInt(v) -> ToString(v.int)
      [] IsNone(v) -> "None"
      [] IsBool(v) -> IF v.bool THEN "True" ELSE "False"

\* int(v): the integer, or the error int() raises
int(v) ==
    CASE IsInt(v) -> Return(v.int)
      [] IsBool(v) -> Return(IF v.bool THEN 1 ELSE 0)
      [] IsStr(v) ->
            IF Len(v.str) > 0 /\ AllDigits(v.str, 1, Len(v.str))
            THEN Return(DecVal(v.str, 1, Len(v.str)))
            ELSE Raise("ValueError")
      [] OTHER -> Raise("TypeError")

\* bool(v)
bool(v) ==
    CASE IsBool(v) -> v.bool
      [] IsInt(v) -> v.int # 0
      [] IsStr(v) -> Len(v.str) > 0
      [] IsNone(v) -> FALSE
      [] IsList(v) -> Len(v.list) > 0

----------------------------------------------------------------------------
(* json.dumps and json.loads on the values the policies render: objects    *)
(* with str keys, and str, int, bool, None and list values. A dict is the  *)
(* sequence of its <<key, value>> items in insertion order. The strings of *)
(* the model hold no character that json.dumps would escape.               *)

RECURSIVE JsonDumps(_), DumpItems(_, _), DumpMembers(_, _)

\* json.dumps(v), with the default separators ", " and ": "
JsonDumps(v) ==
    CASE IsStr(v) -> "\"" \o v.str \o "\""
      [] IsInt(v) -> ToString(v.int)
      [] IsBool(v) -> IF v.bool THEN "true" ELSE "false"
      [] IsNone(v) -> "null"
      [] IsList(v) -> "[" \o DumpItems(v.list, 1) \o "]"
      [] IsDict(v) -> "{" \o DumpMembers(v.dict, 1) \o "}"

DumpItems(l, k) ==
    IF k > Len(l) THEN ""
    ELSE JsonDumps(l[k]) \o (IF k < Len(l) THEN ", " ELSE "") \o DumpItems(l, k + 1)

DumpMembers(d, k) ==
    IF k > Len(d) THEN ""
    ELSE "\"" \o d[k][1] \o "\": " \o JsonDumps(d[k][2])
         \o (IF k < Len(d) THEN ", " ELSE "") \o DumpMembers(d, k + 1)

Ch(s, i) == IF i >= 1 /\ i <= Len(s) THEN SubSeq(s, i, i) ELSE ""

RECURSIVE SkipWs(_, _)
SkipWs(s, i) == IF Ch(s, i) = " " THEN SkipWs(s, i + 1) ELSE i

\* the first index at or after i that holds c, or Len(s) + 1
RECURSIVE ScanTo(_, _, _)
ScanTo(s, i, c) == IF i > Len(s) \/ Ch(s, i) = c THEN i ELSE ScanTo(s, i + 1, c)

RECURSIVE ScanDigits(_, _)
ScanDigits(s, i) == IF IsDigit(Ch(s, i)) THEN ScanDigits(s, i + 1) ELSE i

Bad == [bad |-> TRUE]
Parsed(v, i) == [v |-> v, i |-> i]
IsBad(r) == "bad" \in DOMAIN r
Word(s, i, w) == i + Len(w) - 1 <= Len(s) /\ SubSeq(s, i, i + Len(w) - 1) = w

RECURSIVE JsonValue(_, _), JsonItems(_, _, _), JsonMembers(_, _, _)

\* the JSON value that starts at s[i0], and the index after it
JsonValue(s, i0) ==
    LET i == SkipWs(s, i0)
        c == Ch(s, i)
    IN  CASE c = "\"" ->
                LET j == ScanTo(s, i + 1, "\"")
                IN  IF j > Len(s) THEN Bad
                    ELSE Parsed(PyStr(IF j = i + 1 THEN "" ELSE SubSeq(s, i + 1, j - 1)), j + 1)
          [] IsDigit(c) ->
                LET j == ScanDigits(s, i)
                IN  Parsed(PyInt(DecVal(s, i, j - 1)), j)
          [] c = "-" /\ IsDigit(Ch(s, i + 1)) ->
                LET j == ScanDigits(s, i + 1)
                IN  Parsed(PyInt(0 - DecVal(s, i + 1, j - 1)), j)
          [] Word(s, i, "null") -> Parsed(PyNone, i + 4)
          [] Word(s, i, "true") -> Parsed(PyBool(TRUE), i + 4)
          [] Word(s, i, "false") -> Parsed(PyBool(FALSE), i + 5)
          [] c = "[" -> JsonItems(s, i + 1, <<>>)
          [] c = "{" -> JsonMembers(s, i + 1, <<>>)
          [] OTHER -> Bad

JsonItems(s, i0, acc) ==
    LET i == SkipWs(s, i0)
    IN  IF Ch(s, i) = "]" /\ acc = <<>> THEN Parsed(PyList(acc), i + 1)
        ELSE LET r == JsonValue(s, i)
             IN  IF IsBad(r) THEN Bad
                 ELSE LET k == SkipWs(s, r.i)
                      IN  CASE Ch(s, k) = "," -> JsonItems(s, k + 1, Append(acc, r.v))
                            [] Ch(s, k) = "]" -> Parsed(PyList(Append(acc, r.v)), k + 1)
                            [] OTHER -> Bad

JsonMembers(s, i0, acc) ==
    LET i == SkipWs(s, i0)
    IN  IF Ch(s, i) = "}" /\ acc = <<>> THEN Parsed(PyDict(acc), i + 1)
        ELSE LET key == JsonValue(s, i)
             IN  IF IsBad(key) \/ ~IsStr(key.v) THEN Bad
                 ELSE LET c == SkipWs(s, key.i)
                          r == IF Ch(s, c) = ":" THEN JsonValue(s, c + 1) ELSE Bad
                      IN  IF IsBad(r) THEN Bad
                          ELSE LET k == SkipWs(s, r.i)
                                   item == <<key.v.str, r.v>>
                               IN  CASE Ch(s, k) = "," -> JsonMembers(s, k + 1, Append(acc, item))
                                     [] Ch(s, k) = "}" -> Parsed(PyDict(Append(acc, item)), k + 1)
                                     [] OTHER -> Bad

\* json.loads(s): the value, or the error raised
JsonLoads(s) ==
    LET r == JsonValue(s, 1)
    IN  IF IsBad(r) THEN Raise("JSONDecodeError")
        ELSE IF SkipWs(s, r.i) # Len(s) + 1 THEN Raise("JSONDecodeError")
        ELSE Return(r.v)

\* a python dict as the mapping it is: equal dicts are equal mappings
DictAsMap(d) ==
    [k \in {d[i][1] : i \in DOMAIN d} |->
        d[CHOOSE i \in DOMAIN d : d[i][1] = k /\ \A j \in DOMAIN d : d[j][1] = k => j <= i][2]]

----------------------------------------------------------------------------
(* Collaborators: the calls a policy makes, as they are recorded in calls, *)
(* each with the answer the collaborator gave.                             *)

DEBUG == "DEBUG"
INFO == "INFO"
ERROR == "ERROR"
WARNING == "WARNING"

Log(msg, level) == [fn |-> "log", msg |-> msg, level |-> level]
StatusSet(state, msg) == [fn |-> "status_set", state |-> state, msg |-> msg]
CheckOutput(argv, out) == [fn |-> "check_output", argv |-> argv, out |-> out]
CmpPkgrevno(pkg, ver, cmp) == [fn |-> "cmp_pkgrevno", pkg |-> pkg, ver |-> ver, cmp |-> cmp]

\* what check_output can answer: the command's output, or one of the two
\* errors it raises (non-zero exit, malformed invocation)
ProcessOutcomes ==
    { [kind |-> "return", bytes |-> "ok"],
      [kind |-> "raise", exc |-> "CalledProcessError",
       text |-> "Command 'cmd' returned non-zero exit status 1."],
      [kind |-> "raise", exc |-> "ValueError", text |-> "embedded null byte"] }

\* what cmp_pkgrevno can answer
CmpOutcomes == {-1, 0, 1}

\* bytes.decode("utf-8") of a command's output
Decode(bytes) == PyStr(bytes)

\* the exception classes an except clause naming `names` catches
Catches(names, exc) == exc \in names

----------------------------------------------------------------------------
(* BasePolicy                                                              *)

ApplyToTypes == {"queues", "exchanges", "all"}

\* the outcome of a statement that may change the object
Done(obj) == [obj |-> obj, ret |-> Return(PyNone)]
Failed(obj, exc) == [obj |-> obj, ret |-> Raise(exc)]

\* obj.<field> = value, for a plain attribute
SetAttribute(obj, field, value) == (field :> value) @@ obj

\* as the apply_to setter, without the membership test
apply_to_setter_unchecked(obj, value) == Done(SetAttribute(obj, "_apply_to", value))

\* @apply_to.setter
apply_to_setter(obj, value) ==
    IF value \in ApplyToTypes
    THEN Done(SetAttribute(obj, "_apply_to", value))
    ELSE Failed(obj, "ValueError")

\* BasePolicy.__init__
BasePolicy_init(vhost, name, pattern, definition, apply_to, priority, type) ==
    LET o == [cls |-> "BasePolicy", vhost |-> str(vhost), name |-> str(name),
              pattern |-> str(pattern), definition |-> str(definition)]
        a == apply_to_setter(o, str(apply_to))
    IN  IF a.ret.kind = "raise" THEN Failed(NoPolicy, a.ret.exc)
        ELSE Done(SetAttribute(SetAttribute(a.obj, "priority", str(priority)),
                               "type", str(type)))

\* BasePolicy.check
BasePolicy_check(obj) == [calls |-> <<>>, ret |-> Return(PyBool(TRUE))]

\* as BasePolicy._key, with the class in the key
BasePolicy_key_cls(obj) == <<obj.vhost, obj.name, obj.cls>>

\* BasePolicy._key
BasePolicy_key(obj) == <<obj.vhost, obj.name>>

----------------------------------------------------------------------------
(* TTLPolicy                                                               *)

\* TTLPolicy.__init__
TTLPolicy_init(vhost, name, pattern, apply_to, priority, type, ttl, message_ttl) ==
    LET o == [cls |-> "TTLPolicy", vhost |-> str(vhost), name |-> str(name),
              pattern |-> str(pattern)]
        a == apply_to_setter(o, str(apply_to))
        t == int(ttl)
    IN  IF a.ret.kind = "raise" THEN Failed(NoPolicy, a.ret.exc)
        ELSE IF t.kind = "raise" THEN Failed(NoPolicy, t.exc)
        ELSE Done(a.obj @@ [priority |-> str(priority), type |-> str(type),
                            ttl |-> t.value, message_ttl |-> bool(message_ttl)])

\* as TTLPolicy.definition, with the queue key spelled "expires"
TTLPolicy_definition_expires(obj) ==
    IF obj.message_ttl
    THEN JsonDumps(PyDict(<< <<"message-ttl", PyInt(obj.ttl)>> >>))
    ELSE JsonDumps(PyDict(<< <<"expires", PyInt(obj.ttl)>> >>))

\* TTLPolicy.definition
TTLPolicy_definition(obj) ==
    IF obj.message_ttl
    THEN JsonDumps(PyDict(<< <<"message-ttl", PyInt(obj.ttl)>> >>))
    ELSE JsonDumps(PyDict(<< <<"experies", PyInt(obj.ttl)>> >>))

----------------------------------------------------------------------------
(* HAPolicy                                                                *)

ModeTypes == {"all", "exactly", "nodes"}
SyncModeTypes == {"automatic", "manual"}

\* as the mode setter, storing the value before testing it
mode_setter_store_first(obj, value) ==
    IF value \in ModeTypes
    THEN Done(SetAttribute(obj, "_mode", value))
    ELSE Failed(SetAttribute(obj, "_mode", value), "ValueError")

\* @mode.setter
mode_setter(obj, value) ==
    IF value \in ModeTypes
    THEN Done(SetAttribute(obj, "_mode", value))
    ELSE Failed(obj, "ValueError")

\* @sync_mode.setter
sync_mode_setter(obj, value) ==
    IF value \in SyncModeTypes
    THEN Done(SetAttribute(obj, "_sync_mode", value))
    ELSE Failed(obj, "ValueError")

\* HAPolicy.__init__
HAPolicy_init(vhost, name, pattern, apply_to, priority, params, type, mode, sync_mode) ==
    LET o == [cls |-> "HAPolicy", vhost |-> str(vhost), name |-> str(name),
              pattern |-> str(pattern)]
        a == apply_to_setter(o, str(apply_to))
        o2 == a.obj @@ [priority |-> str(priority), params |-> params, type |-> str(type)]
        m == mode_setter(o2, str(mode))
        sm == sync_mode_setter(m.obj, str(sync_mode))
    IN  IF a.ret.kind = "raise" THEN Failed(NoPolicy, a.ret.exc)
        ELSE IF m.ret.kind = "raise" THEN Failed(NoPolicy, m.ret.exc)
        ELSE IF sm.ret.kind = "raise" THEN Failed(NoPolicy, sm.ret.exc)
        ELSE Done(sm.obj)

\* as HAPolicy.check, refusing version 3.0.0 itself too
HAPolicy_check_le(obj, cmp) ==
    [calls |-> << CmpPkgrevno("rabbitmq-server", "3.0.0", cmp) >>,
     ret |-> Return(PyBool(~(cmp <= 0)))]

\* HAPolicy.check, given cmp_pkgrevno's answer
HAPolicy_check(obj, cmp) ==
    IF cmp < 0
    THEN [calls |-> << CmpPkgrevno("rabbitmq-server", "3.0.0", cmp),
                       Log("Mirroring queues cannot be enabled, only supported "
                           \o "in rabbitmq-server >= 3.0", WARNING),
                       Log("More information at http://www.rabbitmq.com/blog/"
                           \o "2012/11/19/breaking-things-with-rabbitmq-3-0", INFO) >>,
          ret |-> Return(PyBool(FALSE))]
    ELSE [calls |-> << CmpPkgrevno("rabbitmq-server", "3.0.0", cmp) >>,
          ret |-> Return(PyBool(TRUE))]

\* HAPolicy.definition
HAPolicy_definition(obj) ==
    LET d == << <<"ha-mode", PyStr(obj._mode)>>,
                <<"ha-sync-mode", PyStr(obj._sync_mode)>> >>
    IN  IF obj._mode # "all"
        THEN JsonDumps(PyDict(Append(d, <<"ha-params", obj.params>>)))
        ELSE JsonDumps(PyDict(d))

----------------------------------------------------------------------------
(* Method resolution: the attribute a policy of each class answers with.   *)

\* self.check()
check(obj, cmp) ==
    IF obj.cls = "HAPolicy" THEN HAPolicy_check(obj, cmp) ELSE BasePolicy_check(obj)

\* self.definition
definition(obj) ==
    CASE obj.cls = "TTLPolicy" -> TTLPolicy_definition(obj)
      [] obj.cls = "HAPolicy" -> HAPolicy_definition(obj)
      [] OTHER -> obj.definition

----------------------------------------------------------------------------
(* set() and clear(), given the collaborators' answers: cmp is what        *)
(* cmp_pkgrevno returns and out what check_output returns or raises. Each  *)
(* yields the collaborator calls made, in order, and how the call ended.   *)

\* as SetPolicyArgv, with the name given before the vhost
SetPolicyArgv_swapped(obj) ==
    << "rabbitmqctl", "set_policy", "-p", obj.name, obj.vhost, obj.pattern,
       definition(obj), "--apply-to", obj._apply_to, "--priority", obj.priority >>

SetPolicyArgv(obj) ==
    << "rabbitmqctl", "set_policy", "-p", obj.vhost, obj.name, obj.pattern,
       definition(obj), "--apply-to", obj._apply_to, "--priority", obj.priority >>

ClearPolicyArgv(obj) ==
    << "rabbitmqctl", "clear_policy", "-p", obj.vhost, obj.name >>

\* as SetExcept, without ValueError
SetExcept_narrow == {"CalledProcessError"}

\* as ClearExcept, catching nothing
ClearExcept_none == {}

\* the exception classes each except clause names
SetExcept == {"CalledProcessError", "ValueError"}
ClearExcept == {"CalledProcessError"}

\* as TryCheckOutput, trying a failed command a second time
TryCheckOutput_retry(argv, out) ==
    IF out.kind = "raise"
    THEN << CheckOutput(argv, out), CheckOutput(argv, out) >>
    ELSE << CheckOutput(argv, out) >>

\* one `check_output(argv)` statement: the executions it makes
TryCheckOutput(argv, out) == << CheckOutput(argv, out) >>

\* BasePolicy.set
BasePolicy_set(obj, cmp, out) ==
    LET chk == check(obj, cmp)
        setting == Log("Setting policy " \o obj.cls \o " to vhost: '" \o obj.vhost
                       \o "' with name: '" \o obj.name \o "'", DEBUG)
        msg == "RabbitMQ failed to create policy " \o obj.name
    IN  IF ~chk.ret.value.bool
        THEN [calls |-> chk.calls, ret |-> Return(PyNone)]
        ELSE IF out.kind = "return"
        THEN [calls |-> chk.calls \o << setting >> \o TryCheckOutput(SetPolicyArgv(obj), out)
                        \o << Log(Decode(out.bytes).str, INFO) >>,
              ret |-> Return(Decode(out.bytes))]
        ELSE IF Catches(SetExcept, out.exc)
        THEN [calls |-> chk.calls \o << setting >> \o TryCheckOutput(SetPolicyArgv(obj), out)
                        \o << Log(out.text \o ", " \o msg, ERROR), StatusSet("blocked", msg) >>,
              ret |-> Return(PyNone)]
        ELSE [calls |-> chk.calls \o << setting >> \o TryCheckOutput(SetPolicyArgv(obj), out),
              ret |-> Raise(out.exc)]

\* the value of a call whose result the caller drops: `super().set()` as a
\* statement, in a method that then ends without a return
Dropped(r) == [r EXCEPT !.ret = IF r.ret.kind = "return" THEN Return(PyNone) ELSE r.ret]

\* TTLPolicy.set
TTLPolicy_set(obj, cmp, out) == Dropped(BasePolicy_set(obj, cmp, out))

\* HAPolicy.set
HAPolicy_set(obj, cmp, out) == Dropped(BasePolicy_set(obj, cmp, out))

\* self.set()
set(obj, cmp, out) ==
    CASE obj.cls = "TTLPolicy" -> TTLPolicy_set(obj, cmp, out)
      [] obj.cls = "HAPolicy" -> HAPolicy_set(obj, cmp, out)
      [] OTHER -> BasePolicy_set(obj, cmp, out)

\* BasePolicy.clear
BasePolicy_clear(obj, out) ==
    LET clearing == Log("Clearing policy " \o obj.cls \o " to vhost: '" \o obj.vhost
                        \o "' with name: '" \o obj.name \o "'", DEBUG)
        msg == "RabbitMQ failed to clear policy " \o obj.name
    IN  IF out.kind = "return"
        THEN [calls |-> << clearing >> \o TryCheckOutput(ClearPolicyArgv(obj), out)
                        \o << Log(Decode(out.bytes).str, INFO) >>,
              ret |-> Return(Decode(out.bytes))]
        ELSE IF Catches(ClearExcept, out.exc)
        THEN [calls |-> << clearing >> \o TryCheckOutput(ClearPolicyArgv(obj), out)
                        \o << Log(out.text \o ", " \o msg, ERROR), StatusSet("blocked", msg) >>,
              ret |-> Return(PyNone)]
        ELSE [calls |-> << clearing >> \o TryCheckOutput(ClearPolicyArgv(obj), out),
              ret |-> Raise(out.exc)]

\* BasePolicy.__hash__: hash() of the key tuple. Python's hash is a function
\* of the value that may collide; here the lengths of the two strings,
\* combined as the tuple hash combines its items' hashes.
BasePolicy_hash(obj) ==
    LET k == BasePolicy_key(obj)
    IN  (31 * Len(k[1]) + Len(k[2])) % 64

\* BasePolicy.__eq__
BasePolicy_eq(obj, o) ==
    IF IsPolicy(o)
    THEN PyBool(BasePolicy_key(obj) = BasePolicy_key(o))
    ELSE [NotImplemented |-> TRUE]

\* a == b for a policy a: __eq__, and identity when it is NotImplemented
PyEq(a, b) ==
    LET r == BasePolicy_eq(a, b)
    IN  IF IsBool(r) THEN r.bool ELSE a = b

\* set.add(x) on a python set held in insertion order: x is dropped when
\* an element with the same hash equals it
SetAdd(s, x) ==
    IF \E i \in DOMAIN s : BasePolicy_hash(s[i]) = BasePolicy_hash(x) /\ PyEq(s[i], x)
    THEN s
    ELSE Append(s, x)

POLICY_HANDLERS ==
    [generic |-> "BasePolicy", ha |-> "HAPolicy", ttl |-> "TTLPolicy"]

----------------------------------------------------------------------------
(* The broker, as rabbitmqctl changes it: a command that succeeds sets or  *)
(* removes the policy of <<vhost, name>>; one that fails changes nothing.  *)

BrokerExec(b, argv, out) ==
    IF out.kind # "return" THEN b
    ELSE IF argv[2] = "set_policy"
    THEN (<<argv[4], argv[5]>> :>
            [pattern |-> argv[6], definition |-> argv[7],
             apply_to |-> argv[9], priority |-> argv[11]]) @@ b
    ELSE [k \in DOMAIN b \ {<<argv[4], argv[5]>>} |-> b[k]]

\* the broker after the check_output calls among `cs`
RECURSIVE BrokerAfter(_, _)
BrokerAfter(b, cs) ==
    IF cs = <<>> THEN b
    ELSE BrokerAfter(IF Head(cs).fn = "check_output"
                     THEN BrokerExec(b, Head(cs).argv, Head(cs).out) ELSE b,
                     Tail(cs))

----------------------------------------------------------------------------
(* The arguments callers construct policies with, and the values they      *)
(* assign afterwards.                                                      *)

VHostInputs == {PyStr("/")}
NameInputs == {PyStr("HA")}
PatternInputs == {PyStr("foo")}
DefinitionInputs == {PyNone, PyStr("{\"ha-mode\": \"all\"}")}
ApplyToInputs == {PyStr("queues"), PyStr("exchanges"), PyStr("all"), PyStr("bar")}
PriorityInputs == {PyStr("1"), PyInt(0)}
TtlInputs == {PyInt(3600000), PyStr("3600"), PyStr("1h")}
MessageTtlInputs == {PyBool(TRUE), PyBool(FALSE)}
ModeInputs == {PyStr("all"), PyStr("exactly"), PyStr("nodes"), PyStr("bar")}
SyncModeInputs == {PyStr("automatic"), PyStr("manual"), PyStr("foo")}
ParamsInputs == {PyNone, PyStr("bar")}

\* the calls in `cs` made to collaborator fn
CallsTo(cs, fn) == SelectSeq(cs, LAMBDA c : c.fn = fn)

Constructed == IsPolicy(self)

----------------------------------------------------------------------------
(* Operations on the policy.                                               *)

Init ==
    /\ self = NoPolicy
    /\ other = NoPolicy
    /\ pset = <<>>
    /\ calls = <<>>
    /\ ret = Return(PyNone)
    /\ last = [op |-> "none"]
    /\ applied = <<>>
    /\ broker = <<>>

\* the constructor's outcome r becomes the state
Construction(r, tag, args) ==
    /\ self' = r.obj
    /\ ret' = r.ret
    /\ last' = [op |-> "__init__", tag |-> tag, args |-> args]
    /\ calls' = <<>>
    /\ applied' = <<>>
    /\ UNCHANGED <<other, pset, broker>>

\* POLICY_HANDLERS[tag](...)
Construct ==
    /\ self = NoPolicy
    /\ \E tag \in DOMAIN POLICY_HANDLERS, vhost \in VHostInputs, name \in NameInputs,
          apply_to \in ApplyToInputs, priority \in PriorityInputs :
          \/ /\ POLICY_HANDLERS[tag] = "BasePolicy"
             /\ \E pattern \in PatternInputs \cup {PyNone}, defn \in DefinitionInputs :
                   Construction(BasePolicy_init(vhost, name, pattern, defn, apply_to,
                                                priority, PyStr("generic")),
                                tag, [apply_to |-> apply_to])
          \/ /\ POLICY_HANDLERS[tag] = "TTLPolicy"
             /\ \E pattern \in PatternInputs, ttl \in TtlInputs,
                   message_ttl \in MessageTtlInputs :
                   Construction(TTLPolicy_init(vhost, name, pattern, apply_to, priority,
                                               PyStr("ttl"), ttl, message_ttl),
                                tag, [apply_to |-> apply_to, ttl |-> ttl])
          \/ /\ POLICY_HANDLERS[tag] = "HAPolicy"
             /\ \E pattern \in PatternInputs, params \in ParamsInputs,
                   mode \in ModeInputs, sync_mode \in SyncModeInputs :
                   Construction(HAPolicy_init(vhost, name, pattern, apply_to, priority,
                                              params, PyStr("ha"), mode, sync_mode),
                                tag, [apply_to |-> apply_to, mode |-> mode,
                                      sync_mode |-> sync_mode])

\* the outcome r of an assignment becomes the state; a set() streak ends
\* when the policy changes
Assignment(field, value, r) ==
    /\ self' = r.obj
    /\ ret' = r.ret
    /\ last' = [op |-> field, value |-> value]
    /\ calls' = <<>>
    /\ applied' = IF r.obj = self THEN applied ELSE <<>>
    /\ UNCHANGED <<other, pset, broker>>

\* policy.apply_to = value
AssignApplyTo ==
    /\ Constructed
    /\ \E value \in ApplyToInputs : Assignment("apply_to", value.str, apply_to_setter(self, value.str))

\* policy.mode = value
AssignMode ==
    /\ Constructed /\ self.cls = "HAPolicy"
    /\ \E value \in ModeInputs : Assignment("mode", value.str, mode_setter(self, value.str))

\* policy.sync_mode = value
AssignSyncMode ==
    /\ Constructed /\ self.cls = "HAPolicy"
    /\ \E value \in SyncModeInputs :
          Assignment("sync_mode", value.str, sync_mode_setter(self, value.str))

\* policy.set()
Set ==
    /\ Constructed
    /\ Len(applied) < MaxApply
    /\ \E cmp \in CmpOutcomes, out \in ProcessOutcomes :
          LET r == set(self, cmp, out)
              execs == CallsTo(r.calls, "check_output")
          IN  /\ calls' = r.calls
              /\ ret' = r.ret
              /\ broker' = BrokerAfter(broker, r.calls)
              /\ applied' = applied \o [i \in DOMAIN execs |-> execs[i].argv]
              /\ last' = [op |-> "set", cmp |-> cmp, out |-> out]
    /\ UNCHANGED <<self, other, pset>>

\* policy.clear()
Clear ==
    /\ Constructed
    /\ \E out \in ProcessOutcomes :
          LET r == BasePolicy_clear(self, out)
          IN  /\ calls' = r.calls
              /\ ret' = r.ret
              /\ broker' = BrokerAfter(broker, r.calls)
              /\ last' = [op |-> "clear", out |-> out]
    /\ applied' = <<>>
    /\ UNCHANGED <<self, other, pset>>

\* policy.check()
Check ==
    /\ Constructed
    /\ \E cmp \in CmpOutcomes :
          LET r == check(self, cmp)
          IN  calls' = r.calls /\ ret' = r.ret /\ last' = [op |-> "check", cmp |-> cmp]
    /\ UNCHANGED <<self, other, pset, applied, broker>>

\* policy.definition
GetDefinition ==
    /\ Constructed
    /\ ret' = Return(PyStr(definition(self)))
    /\ calls' = <<>>
    /\ last' = [op |-> "definition"]
    /\ UNCHANGED <<self, other, pset, applied, broker>>

Next ==
    \/ Construct
    \/ AssignApplyTo
    \/ AssignMode
    \/ AssignSyncMode
    \/ Set
    \/ Clear
    \/ Check

Spec == Init /\ [][Next]_vars

----------------------------------------------------------------------------
(* The fields of a policy and its computed definition: construction, every *)
(* assignment, and reads of the definition.                                *)

TtlValues == {3600000, 3600, 0}
ParamsValues == ParamsInputs \cup {PyInt(2), PyList(<<PyStr("n1"), PyStr("n2")>>)}
PatternValues == {"foo", "^bar"}

\* policy.pattern = value
AssignPattern ==
    /\ Constructed
    /\ \E value \in PatternValues :
          Assignment("pattern", value, Done(SetAttribute(self, "pattern", value)))

\* policy.ttl = value
AssignTtl ==
    /\ Constructed /\ self.cls = "TTLPolicy"
    /\ \E value \in TtlValues : Assignment("ttl", value, Done(SetAttribute(self, "ttl", value)))

\* policy.message_ttl = value
AssignMessageTtl ==
    /\ Constructed /\ self.cls = "TTLPolicy"
    /\ \E value \in BOOLEAN :
          Assignment("message_ttl", value, Done(SetAttribute(self, "message_ttl", value)))

\* policy.params = value
AssignParams ==
    /\ Constructed /\ self.cls = "HAPolicy"
    /\ \E value \in ParamsValues :
          Assignment("params", value, Done(SetAttribute(self, "params", value)))

NextFields ==
    \/ Construct
    \/ AssignApplyTo
    \/ AssignMode
    \/ AssignSyncMode
    \/ AssignPattern
    \/ AssignTtl
    \/ AssignMessageTtl
    \/ AssignParams
    \/ GetDefinition

SpecFields == Init /\ [][NextFields]_vars

----------------------------------------------------------------------------
(* Identity: two python objects, compared, hashed and collected in a set.  *)

IdentityVHosts == {PyStr("/"), PyStr("openstack")}
IdentityNames == {PyStr("HA"), PyStr("AH"), PyStr("TTL")}

\* policies of the three classes, constructed as the callers construct them
IdentityPolicies ==
    UNION { { BasePolicy_init(v, n, PyNone, PyNone, PyStr("queues"), PyStr("1"),
                              PyStr("generic")).obj,
              TTLPolicy_init(v, n, PyStr("foo"), PyStr("all"), PyInt(0), PyStr("ttl"),
                             PyInt(3600000), PyBool(TRUE)).obj,
              HAPolicy_init(v, n, PyStr("bar"), PyStr("exchanges"), PyStr("1"),
                            PyStr("bar"), PyStr("ha"), PyStr("exactly"),
                            PyStr("manual")).obj }
            : <<v, n>> \in IdentityVHosts \X IdentityNames }

InitIdentity ==
    /\ self \in IdentityPolicies
    /\ other \in IdentityPolicies \cup {PyStr("HA")}
    /\ pset = <<>>
    /\ calls = <<>>
    /\ ret = Return(PyNone)
    /\ last = [op |-> "none"]
    /\ applied = <<>>
    /\ broker = <<>>

\* self == other
Equals ==
    /\ ret' = Return(PyBool(PyEq(self, other)))
    /\ last' = [op |-> "__eq__"]
    /\ UNCHANGED <<self, other, pset, calls, applied, broker>>

\* hash(self), hash(other), for two policies
Hash ==
    /\ IsPolicy(other)
    /\ ret' = Return(PyList(<<PyInt(BasePolicy_hash(self)), PyInt(BasePolicy_hash(other))>>))
    /\ last' = [op |-> "__hash__"]
    /\ UNCHANGED <<self, other, pset, calls, applied, broker>>

\* set([self, other]), for two policies
BuildSet ==
    /\ IsPolicy(other)
    /\ pset' = SetAdd(SetAdd(<<>>, self), other)
    /\ ret' = Return(PyInt(Len(pset')))
    /\ last' = [op |-> "set()"]
    /\ UNCHANGED <<self, other, calls, applied, broker>>

NextIdentity ==
    \/ Equals
    \/ Hash
    \/ BuildSet

SpecIdentity == InitIdentity /\ [][NextIdentity]_vars

----------------------------------------------------------------------------
(* Properties.                                                             *)

Execs == CallsTo(calls, "check_output")
StatusCalls == CallsTo(calls, "status_set")
VersionCalls == CallsTo(calls, "cmp_pkgrevno")
ErrorLogs == SelectSeq(calls, LAMBDA c : c.fn = "log" /\ c.level = "ERROR")

\* the last operation was set() and its check() passed
SetChecked == last.op = "set" /\ check(self, last.cmp).ret.value.bool
Succeeded == last.out.kind = "return"
FailedExec == last.out.kind = "raise"

\* C1: when a BasePolicy's set() passes check() and the command succeeds with
\* output T, set() executes exactly one command, the set_policy vector built
\* from the current fields, returns T, and never reports a status.
C1_SetSuccess ==
    (SetChecked /\ self.cls = "BasePolicy" /\ Succeeded) =>
        /\ Len(Execs) = 1
        /\ Execs[1].argv = << "rabbitmqctl", "set_policy", "-p", self.vhost, self.name,
                              self.pattern, self.definition, "--apply-to",
                              self._apply_to, "--priority", self.priority >>
        /\ ret = Return(PyStr(last.out.bytes))
        /\ StatusCalls = <<>>

C1_Witness ==
    /\ SetChecked /\ self.cls = "BasePolicy" /\ Succeeded
    /\ self._apply_to = "all" /\ self.priority = "0" /\ self.pattern = "None"
    /\ ret = Return(PyStr("ok"))

\* C2: set() of a TTLPolicy or HAPolicy issues the same commands, makes the
\* same log and status calls and returns the same value as BasePolicy.set()
\* does for the same fields, check() result and command outcome.
C2_VariantSetIsBaseSet ==
    (last.op = "set" /\ self.cls \in {"TTLPolicy", "HAPolicy"}) =>
        /\ calls = BasePolicy_set(self, last.cmp, last.out).calls
        /\ ret = BasePolicy_set(self, last.cmp, last.out).ret

\* C3: when set() passes check() and the command raises, set() returns None,
\* logs exactly one error and reports status exactly once: 'blocked', with
\* the message "RabbitMQ failed to create policy <name>".
C3_SetFailure ==
    (SetChecked /\ FailedExec) =>
        /\ ret = Return(PyNone)
        /\ Len(ErrorLogs) = 1
        /\ StatusCalls = << StatusSet("blocked", "RabbitMQ failed to create policy "
                                                 \o self.name) >>

C3_Witness ==
    /\ SetChecked /\ FailedExec /\ last.out.exc = "ValueError"
    /\ self.cls = "HAPolicy" /\ Len(StatusCalls) = 1 /\ ret = Return(PyNone)

C5_FailuresAbsorbed ==
    ((SetChecked \/ last.op = "clear") /\ FailedExec) =>
        /\ ret = Return(PyNone)
        /\ Len(ErrorLogs) = 1
        /\ Len(StatusCalls) = 1

\* C6: an HAPolicy's check() is false when cmp_pkgrevno against "3.0.0" is
\* negative, and set() then executes nothing, reports no status and returns
\* None; it is true otherwise, and set() then executes the set_policy
\* command. The version is compared before any command is executed.
C6_VersionGate ==
    /\ (last.op = "check" /\ self.cls = "HAPolicy") =>
          /\ ret = Return(PyBool(last.cmp >= 0))
          /\ calls[1] = CmpPkgrevno("rabbitmq-server", "3.0.0", last.cmp)
    /\ (last.op = "set" /\ self.cls = "HAPolicy") =>
          /\ calls[1] = CmpPkgrevno("rabbitmq-server", "3.0.0", last.cmp)
          /\ last.cmp < 0 =>
                /\ Execs = <<>>
                /\ StatusCalls = <<>>
                /\ ret = Return(PyNone)
          /\ last.cmp >= 0 =>
                /\ Len(Execs) = 1
                /\ SubSeq(Execs[1].argv, 1, 5) =
                      << "rabbitmqctl", "set_policy", "-p", self.vhost, self.name >>
    /\ \A i \in DOMAIN calls :
          (self.cls = "HAPolicy" /\ calls[i].fn = "check_output" /\ last.op = "set") =>
              \E j \in 1..(i - 1) : calls[j].fn = "cmp_pkgrevno"

C6_Witness ==
    /\ last.op = "set" /\ self.cls = "HAPolicy" /\ last.cmp < 0
    /\ Len(VersionCalls) = 1 /\ Execs = <<>> /\ ret = Return(PyNone)

ValidApplyTo == {"queues", "exchanges", "all"}
ValidMode == {"all", "exactly", "nodes"}
ValidSyncMode == {"automatic", "manual"}

\* the enumeration arguments of the last construction are all members
ValidEnumArgs(args) ==
    /\ args.apply_to.str \in ValidApplyTo
    /\ "mode" \in DOMAIN args => args.mode.str \in ValidMode
    /\ "sync_mode" \in DOMAIN args => args.sync_mode.str \in ValidSyncMode

\* C7: constructing with, or assigning, a value outside the enumeration of
\* apply_to, mode or sync_mode raises ValueError; a member is accepted and
\* read back unchanged; so a constructed policy always holds members.
C7_EnumsValidated ==
    /\ Constructed =>
          /\ self._apply_to \in ValidApplyTo
          /\ self.cls = "HAPolicy" =>
                self._mode \in ValidMode /\ self._sync_mode \in ValidSyncMode
    /\ last.op = "apply_to" =>
          IF last.value \in ValidApplyTo
          THEN ret = Return(PyNone) /\ self._apply_to = last.value
          ELSE ret = Raise("ValueError")
    /\ last.op = "mode" =>
          IF last.value \in ValidMode
          THEN ret = Return(PyNone) /\ self._mode = last.value
          ELSE ret = Raise("ValueError")
    /\ last.op = "sync_mode" =>
          IF last.value \in ValidSyncMode
          THEN ret = Return(PyNone) /\ self._sync_mode = last.value
          ELSE ret = Raise("ValueError")
    /\ last.op = "__init__" =>
          IF ValidEnumArgs(last.args)
          THEN /\ last.tag # "ttl" => ret = Return(PyNone)
               /\ ret = Return(PyNone) =>
                     /\ Constructed
                     /\ self._apply_to = last.args.apply_to.str
                     /\ self.cls = "HAPolicy" =>
                           /\ self._mode = last.args.mode.str
                           /\ self._sync_mode = last.args.sync_mode.str
          ELSE ret = Raise("ValueError") /\ ~Constructed

C7_Witness ==
    /\ last.op = "sync_mode" /\ last.value = "foo" /\ ret = Raise("ValueError")
    /\ self.cls = "HAPolicy" /\ self._sync_mode = "manual" /\ self._mode = "nodes"

SameKey(a, b) == a.vhost = b.vhost /\ a.name = b.name

\* C8: two policies of any classes are equal iff their vhost and name
\* match, whatever their other fields; equal policies have equal hashes; a
\* set built from two policies with the same vhost and name has one element.
C8_Identity ==
    IsPolicy(other) =>
        /\ last.op = "__eq__" => ret = Return(PyBool(SameKey(self, other)))
        /\ (last.op = "__hash__" /\ SameKey(self, other)) =>
              ret.value.list[1] = ret.value.list[2]
        /\ last.op = "set()" =>
              Len(pset) = IF SameKey(self, other) THEN 1 ELSE 2

C8_Witness ==
    /\ last.op = "set()" /\ self.cls = "BasePolicy" /\ other.cls = "HAPolicy"
    /\ SameKey(self, other) /\ self.pattern # other.pattern /\ Len(pset) = 1

\* the JSON object a definition parses to, as a mapping
ParsedObject(text) == DictAsMap(JsonLoads(text).value.dict)

\* the definition the current fields call for
ExpectedDefinition ==
    IF self.cls = "TTLPolicy"
    THEN IF self.message_ttl
         THEN "message-ttl" :> PyInt(self.ttl)
         ELSE "experies" :> PyInt(self.ttl)
    ELSE IF self._mode # "all"
         THEN "ha-mode" :> PyStr(self._mode) @@ "ha-sync-mode" :> PyStr(self._sync_mode)
              @@ "ha-params" :> self.params
         ELSE "ha-mode" :> PyStr(self._mode) @@ "ha-sync-mode" :> PyStr(self._sync_mode)

AppliedPolicy ==
    [pattern |-> self.pattern, definition |-> definition(self),
     apply_to |-> self._apply_to, priority |-> self.priority]

PolicyKey == <<self.vhost, self.name>>

C10_State ==
    /\ (SetChecked \/ last.op = "clear") =>
          /\ Len(Execs) = 1
          /\ FailedExec => (Len(StatusCalls) = 1 \/ ret.kind = "raise")
    /\ \A i \in DOMAIN applied :
          /\ applied[i] = applied[1]
          /\ applied[i][2] = "set_policy"
    /\ (SetChecked /\ Succeeded) =>
          PolicyKey \in DOMAIN broker /\ broker[PolicyKey] = AppliedPolicy

C10_Step ==
    (last'.op = "set" /\ Len(applied') = Len(applied) + 1) =>
        /\ last'.out.kind = "raise" => broker' = broker
        /\ (PolicyKey \in DOMAIN broker /\ broker[PolicyKey] = AppliedPolicy) =>
              broker' = broker

RejectedEnumAssignment ==
    last.op \in {"apply_to", "mode", "sync_mode"} /\ ret.kind = "raise"

\* what set() does with policy obj, for every answer of the collaborators
SetRenderings(obj) ==
    [cmp \in CmpOutcomes, out \in ProcessOutcomes |-> set(obj, cmp, out)]

C11_Step ==
    RejectedEnumAssignment' =>
        /\ self' = self
        /\ definition(self') = definition(self)
        /\ SetRenderings(self') = SetRenderings(self)

\* C11: an assignment to apply_to, mode or sync_mode that raises leaves the
\* field at its previous value and every other field as it was, so the
\* definition and set() render afterwards exactly what they rendered before.
C11_RejectedAssignmentKeepsPolicy == [][C11_Step]_vars

C11_Witness ==
    /\ RejectedEnumAssignment /\ last.op = "mode" /\ last.value = "bar"
    /\ ret = Raise("ValueError")
    /\ self.cls = "HAPolicy" /\ self._mode = "exactly" /\ self._apply_to = "exchanges"

====
